---- MODULE Spec2Model ----
(***************************************************************************)
(* Reading-session simulator of Proyecto1/01_simular_datos_lectura.py and *)
(* review analysis of Proyecto1/01b_analizar_reviews.py.                   *)
(*                                                                         *)
(* Units.  The source computes with floats; the model keeps exact integers *)
(*   scores              in 1/100        (abandono_score 0.8  -> 80)       *)
(*   probabilities       in 1/10000      (0.40 -> 4000)                    *)
(*   uniform fractions   in 1/1000       (0.05 -> 50)                      *)
(*   durations           in 1/100 minute (5 minutes -> 500)                *)
(*   raw num_pages       in 1/10 page    (2.9 pages -> 29)                 *)
(*   dates               in days, weekday = day % 7 with 0 = Monday        *)
(*   timestamps          in minutes since day 0                            *)
(* Every call of the numpy generator is a nondeterministic choice; the     *)
(* sample record m handed to an action names the values explored.          *)
(***************************************************************************)
EXTENDS Integers, Sequences, FiniteSets, TLC

VARIABLES
    row,                \* the interaction row handed to simular_para_interaccion
    hash_str,           \* hash(str(user_id)) % 100 of this process, per user id
    ahora,              \* the day datetime.now() falls on
    pc,                 \* position of the call
    camino,             \* the simular_sesiones_* function that was entered
    excepcion,          \* the exception that left the call, or "ninguna"
    num_pages,          \* num_pages after the safe conversion
    prob_aband,         \* adjusted abandonment probability of the else branch
    num_sesiones,       \* drawn session count
    fecha_actual,       \* fecha_actual of generar_patron_temporal_sesiones
    timestamps,         \* timestamps of generar_patron_temporal_sesiones
    dias,               \* the day gaps drawn so far by the pattern generator
    i,                  \* loop index (pattern loop, then session loop)
    progreso_total,     \* target progress of the path
    progreso_acumulado, \* pages read so far
    sesiones,           \* the session list built so far
    duracion,           \* calcular_duracion_sesion: its arguments and result
    perfil,             \* perfil returned by determinar_perfil_lector
    sorteos,            \* number of draws taken from the numpy generator
    corrida,            \* which run of the program this is (1 or 2)
    referencia,         \* what the first run produced for the same interaction
    pendientes,         \* rows the loop of the pipeline has still to process
    reviews_texto_lista,      \* argument of analizar_reviews_libro
    features_individuales,    \* features of the reviews analysed so far
    features_libro,           \* result of analizar_reviews_libro, or None  
    reviews_por_libro,        \* procesar_reviews_goodreads: texts per book id
    total_reviews,            \* procesar_reviews_goodreads: its counter
    max_libros,               \* parameter max_libros, or None  
    sample_reviews_per_book   \* parameter sample_reviews_per_book

\* State of the pipeline around the call.
lote == <<corrida, referencia, pendientes>>

\* State of Proyecto1/01b_analizar_reviews.py.
resenas == <<reviews_texto_lista, features_individuales, features_libro,
            reviews_por_libro, total_reviews, max_libros,
            sample_reviews_per_book>>

vars == <<row, hash_str, ahora, pc, camino, excepcion, num_pages, prob_aband,
          num_sesiones, fecha_actual, timestamps, dias, i, progreso_total,
          progreso_acumulado, sesiones, duracion, perfil, sorteos, lote,
          resenas>>

(***************************************************************************)
(* Bounds of the exploration.                                              *)
(***************************************************************************)
\* The pattern loop and the session loop are explored for session counts up
\* to MaxSes; a larger drawn count is reached but not unrolled.
MaxSes == 5
\* Largest page count handed to calcular_duracion_sesion on its own.
MaxPaginasDur == 6
\* Largest session count handed to generar_patron_temporal_sesiones on its own.
MaxSesPatron == 4
\* Largest session count unrolled for the 320-page scenario.
MaxSesEscenario == 24
\* Longest review list handed to analizar_reviews_libro.
MaxReviews == 3
\* Largest number of lines read from the review file.
MaxLineas == 4

Max(a, b) == IF a >= b THEN a ELSE b
Min(a, b) == IF a <= b THEN a ELSE b
Abs(a) == IF a >= 0 THEN a ELSE 0 - a

(***************************************************************************)
(* Values a pandas cell can hold.                                          *)
(***************************************************************************)
NaN == [nan |-> TRUE, v |-> 0]
Num(k) == [nan |-> FALSE, v |-> k]
\* Python comparisons with NaN are all False.
Ge(x, k) == (~x.nan) /\ x.v >= k
Le(x, k) == (~x.nan) /\ x.v <= k

\* int(): truncation toward zero of a value in tenths
IntTrunc10(t) == IF t >= 0 THEN t \div 10 ELSE 0 - ((0 - t) \div 10)

(***************************************************************************)
(* __init__: the parameter tables.                                         *)
(***************************************************************************)
velocidad_lectura_palabras_min ==
    [rapido |-> <<250, 350>>, medio |-> <<180, 250>>, lento |-> <<120, 180>>]

\* palabras_por_pagina.get(genero, palabras_por_pagina['default'])
palabras_por_pagina(genero) ==
    CASE genero = "fiction"     -> 280
      [] genero = "non-fiction" -> 320
      [] genero = "poetry"      -> 180
      [] genero = "comics"      -> 100
      [] OTHER                  -> 260

\* prob_abandono.get(int(rating), 0.5)
prob_abandono(r) ==
    CASE r = 1 -> 8500
      [] r = 2 -> 7000
      [] r = 3 -> 4000
      [] r = 4 -> 1500
      [] r = 5 -> 500
      [] OTHER -> 5000

\* Mutant: the cut-points are compared with <=.
determinar_perfil_lector_CortesInclusivos(user_id) ==
    LET hash_user == hash_str[user_id]
    IN  IF hash_user <= 20 THEN "rapido"
        ELSE IF hash_user <= 75 THEN "medio"
        ELSE "lento"

determinar_perfil_lector(user_id) ==
    LET hash_user == hash_str[user_id]
    IN  IF hash_user < 20 THEN "rapido"
        ELSE IF hash_user < 75 THEN "medio"
        ELSE "lento"

(***************************************************************************)
(* calcular_duracion_sesion.  velocidad is the uniform draw, ruido the     *)
(* normal draw; the noise has standard deviation duracion_base * 0.1, so   *)
(* it is exactly 0 when duracion_base is 0.                                *)
(***************************************************************************)
DuracionBase(paginas_leidas, genero, velocidad) ==
    (paginas_leidas * palabras_por_pagina(genero) * 100) \div velocidad

\* Mutant: the floor of 5 minutes is left out.
calcular_duracion_sesion_SinMinimo(paginas_leidas, genero, velocidad, ruido) ==
    DuracionBase(paginas_leidas, genero, velocidad) + ruido

calcular_duracion_sesion(paginas_leidas, genero, velocidad, ruido) ==
    Max(500, DuracionBase(paginas_leidas, genero, velocidad) + ruido)

Velocidades(perfil_lector, m) ==
    LET r == velocidad_lectura_palabras_min[perfil_lector]
    IN  (r[1] .. r[2]) \cap m.velocidad

Ruidos(paginas_leidas, genero, velocidad, m) ==
    IF DuracionBase(paginas_leidas, genero, velocidad) = 0 THEN {0} ELSE m.ruido

(***************************************************************************)
(* simular_para_interaccion: conversion of num_pages, lines 585-590.       *)
(* A raw cell is absent/NaN, a non-numeric text, a finite number (in        *)
(* tenths), or an infinite number ("inf", "1e999", the JSON Infinity).      *)
(***************************************************************************)
ConvertirNumPages(crudo) ==
    LET convertido == IF crudo.tipo = "num" THEN IntTrunc10(crudo.v) ELSE 300
    IN  Max(1, convertido)

\* int(float(num_pages)) of an infinite value raises OverflowError, which
\* the except clause (ValueError, TypeError) of line 588 does not catch.
ConversionLanza(crudo) == crudo.tipo = "inf"

\* Mutant: the scores are not capped at 1 before they are weighted.
ProbAjustada_SinTopeDeScore(r) ==
    LET base == prob_abandono(r.rating.v)
        p1 == IF r.abandono_score > 0
              THEN base + r.abandono_score * 25 ELSE base
        p2 == IF r.engagement_score > 0
              THEN p1 - r.engagement_score * 15 ELSE p1
        p3 == IF r.complejidad_score > 0
              THEN p2 + r.complejidad_score * 10 ELSE p2
        p4 == IF r.ritmo_score < 0
              THEN p3 + Abs(r.ritmo_score) * 8 ELSE p3
    IN  Max(0, Min(10000, p4))

\* Mutant: the clamp to [0, 1] is left out.
ProbAjustada_SinLimite(r) ==
    LET base == prob_abandono(r.rating.v)
        p1 == IF r.abandono_score > 0
              THEN base + Min(r.abandono_score, 100) * 25 ELSE base
        p2 == IF r.engagement_score > 0
              THEN p1 - Min(r.engagement_score, 100) * 15 ELSE p1
        p3 == IF r.complejidad_score > 0
              THEN p2 + Min(r.complejidad_score, 100) * 10 ELSE p2
        p4 == IF r.ritmo_score < 0
              THEN p3 + Min(Abs(r.ritmo_score), 100) * 8 ELSE p3
    IN  p4

\* Mutant: the weights of abandono_score and engagement_score are swapped.
ProbAjustada_PesosCambiados(r) ==
    LET base == prob_abandono(r.rating.v)
        p1 == IF r.abandono_score > 0
              THEN base + Min(r.abandono_score, 100) * 15 ELSE base
        p2 == IF r.engagement_score > 0
              THEN p1 - Min(r.engagement_score, 100) * 25 ELSE p1
        p3 == IF r.complejidad_score > 0
              THEN p2 + Min(r.complejidad_score, 100) * 10 ELSE p2
        p4 == IF r.ritmo_score < 0
              THEN p3 + Min(Abs(r.ritmo_score), 100) * 8 ELSE p3
    IN  Max(0, Min(10000, p4))

\* The additive adjustment of the base probability and its clamp.
ProbAjustada(r) ==
    LET base == prob_abandono(r.rating.v)
        p1 == IF r.abandono_score > 0
              THEN base + Min(r.abandono_score, 100) * 25 ELSE base
        p2 == IF r.engagement_score > 0
              THEN p1 - Min(r.engagement_score, 100) * 15 ELSE p1
        p3 == IF r.complejidad_score > 0
              THEN p2 + Min(r.complejidad_score, 100) * 10 ELSE p2
        p4 == IF r.ritmo_score < 0
              THEN p3 + Min(Abs(r.ritmo_score), 100) * 8 ELSE p3
    IN  Max(0, Min(10000, p4))

\* The row reaches the else branch of line 618.
RamaElse(r) ==
    /\ ~(r.is_read = 0 /\ r.rating.nan)
    /\ ~(r.is_read = 1 /\ Ge(r.rating, 4))
    /\ ~Le(r.rating, 2)

\* Mutant: the engagement threshold is inclusive.
Decidir_UmbralInclusivo(r, u) ==
    IF r.is_read = 0 /\ r.rating.nan THEN "vacio"
    ELSE IF r.is_read = 1 /\ Ge(r.rating, 4) THEN "completado"
    ELSE IF Le(r.rating, 2) THEN "temprano"
    ELSE IF r.rating.nan THEN "ValueError"
    ELSE IF u < ProbAjustada(r)
         THEN (IF r.engagement_score <= 0 - 20 THEN "temprano" ELSE "medio")
         ELSE "completado"

\* Mutant: the no-data case is not tested.
Decidir_SinCasoVacio(r, u) ==
    IF r.is_read = 1 /\ Ge(r.rating, 4) THEN "completado"
    ELSE IF Le(r.rating, 2) THEN "temprano"
    ELSE IF r.rating.nan THEN "ValueError"
    ELSE IF u < ProbAjustada(r)
         THEN (IF r.engagement_score < 0 - 20 THEN "temprano" ELSE "medio")
         ELSE "completado"

\* Mutant: the low-rating test is rating < 2.
Decidir_MenorEstricto(r, u) ==
    IF r.is_read = 0 /\ r.rating.nan THEN "vacio"
    ELSE IF r.is_read = 1 /\ Ge(r.rating, 4) THEN "completado"
    ELSE IF Le(r.rating, 1) THEN "temprano"
    ELSE IF r.rating.nan THEN "ValueError"
    ELSE IF u < ProbAjustada(r)
         THEN (IF r.engagement_score < 0 - 20 THEN "temprano" ELSE "medio")
         ELSE "completado"

\* The if/elif cascade; u is the np.random.random() draw of the else branch.
\* int(rating) raises ValueError on NaN.
Decidir(r, u) ==
    IF r.is_read = 0 /\ r.rating.nan THEN "vacio"
    ELSE IF r.is_read = 1 /\ Ge(r.rating, 4) THEN "completado"
    ELSE IF Le(r.rating, 2) THEN "temprano"
    ELSE IF r.rating.nan THEN "ValueError"
    ELSE IF u < ProbAjustada(r)
         THEN (IF r.engagement_score < 0 - 20 THEN "temprano" ELSE "medio")
         ELSE "completado"

(***************************************************************************)
(* Session counts and start offsets: np.random.randint(lo, hi) is lo..hi-1 *)
(***************************************************************************)
\* Mutant: the early path draws up to six sessions.
RangoSesiones_TempranoHastaSeis(c, np) ==
    CASE c = "completado" /\ np < 150 -> 3 .. 7
      [] c = "completado" /\ np >= 150 /\ np < 300 -> 6 .. 14
      [] c = "completado" /\ np >= 300 /\ np < 500 -> 10 .. 24
      [] c = "completado" /\ np >= 500 -> 15 .. 39
      [] c = "temprano" -> 1 .. 6
      [] c = "medio" -> 5 .. 14

\* Mutant: the second cut-point of the Completed brackets is 350 pages.
RangoSesiones_CorteMediano(c, np) ==
    CASE c = "completado" /\ np < 150 -> 3 .. 7
      [] c = "completado" /\ np >= 150 /\ np < 350 -> 6 .. 14
      [] c = "completado" /\ np >= 350 /\ np < 500 -> 10 .. 24
      [] c = "completado" /\ np >= 500 -> 15 .. 39
      [] c = "temprano" -> 1 .. 4
      [] c = "medio" -> 5 .. 14

RangoSesiones(c, np) ==
    CASE c = "completado" /\ np < 150 -> 3 .. 7
      [] c = "completado" /\ np >= 150 /\ np < 300 -> 6 .. 14
      [] c = "completado" /\ np >= 300 /\ np < 500 -> 10 .. 24
      [] c = "completado" /\ np >= 500 -> 15 .. 39
      [] c = "temprano" -> 1 .. 4
      [] c = "medio" -> 5 .. 14

RangoDiasAtras(c) ==
    CASE c = "completado" -> 30 .. 364
      [] c = "temprano" -> 30 .. 179
      [] c = "medio" -> 60 .. 299

\* Mutant: the early path draws its target from the midway range.
RangoFraccion_TempranoComoMedio(c) ==
    CASE c = "completado" -> {1000}
      [] c = "temprano" -> 300 .. 699
      [] c = "medio" -> 300 .. 699

\* np.random.uniform(lo, hi) of progreso_total, in 1/1000; the draw is in
\* [lo, hi), and for books of up to 1000 pages every value of
\* int(num_pages * u) is the value at some multiple of 1/1000.
RangoFraccion(c) ==
    CASE c = "completado" -> {1000}
      [] c = "temprano" -> 50 .. 299
      [] c = "medio" -> 300 .. 699

(***************************************************************************)
(* generar_patron_temporal_sesiones.                                       *)
(***************************************************************************)
\* i < num_sesiones * 0.3
EsTemprana(k, n) == k * 10 < n * 3

\* Mutant: the early gaps reach four days.
DiasHastaProxima_TempranaHastaCuatro(k, n) ==
    IF EsTemprana(k, n) THEN {0, 1, 2, 3, 4} ELSE {1, 2, 3, 4, 5, 7}

\* Mutant: the later gaps may be zero days.
DiasHastaProxima_TardiaConCero(k, n) ==
    IF EsTemprana(k, n) THEN {0, 1, 2, 3} ELSE {0, 1, 2, 3, 4, 5, 7}

DiasHastaProxima(k, n) ==
    IF EsTemprana(k, n) THEN {0, 1, 2, 3} ELSE {1, 2, 3, 4, 5, 7}

Horas(dia_semana) ==
    IF dia_semana < 5 THEN {7, 8, 9, 12, 13, 19, 20, 21, 22, 23} ELSE 8 .. 23

\* fecha_actual.replace(hour=hora, minute=minuto, second=0)
Timestamp(fecha, hora, minuto) == fecha * 1440 + hora * 60 + minuto

\* One iteration of the loop of lines 192-233.
PatronPaso(m) ==
    /\ pc = "patron"
    /\ i < num_sesiones
    /\ num_sesiones <= m.tope
    /\ \E dias_hasta_proxima \in DiasHastaProxima(i, num_sesiones) \cap m.gaps :
         LET fecha == fecha_actual + dias_hasta_proxima
         IN  \E hora \in Horas(fecha % 7) \cap m.horas :
               \E minuto \in (0 .. 59) \cap m.minutos :
                 /\ fecha_actual' = fecha
                 /\ dias' = Append(dias, dias_hasta_proxima)
                 /\ timestamps' = Append(timestamps, Timestamp(fecha, hora, minuto))
    /\ i' = i + 1
    /\ sorteos' = sorteos + 3
    /\ UNCHANGED <<row, hash_str, ahora, pc, camino, excepcion, num_pages,
                   prob_aband, num_sesiones, progreso_total,
                   progreso_acumulado, sesiones, duracion, perfil, lote,
                   resenas>>

(***************************************************************************)
(* simular_para_interaccion, lines 579-671: conversion of the row and      *)
(* choice of the path, up to the call of simular_sesiones_*.               *)
(***************************************************************************)
simular_para_interaccion(m) ==
    /\ pc = "llamada"
    /\ IF ConversionLanza(row.num_pages)
       THEN /\ pc' = "excepcion"
            /\ excepcion' = "OverflowError"
            /\ UNCHANGED <<camino, num_pages, prob_aband, sorteos>>
       ELSE /\ \E u \in m.random :
                 LET d == Decidir(row, u)
                 IN  /\ num_pages' = ConvertirNumPages(row.num_pages)
                     /\ prob_aband' = IF RamaElse(row) /\ ~row.rating.nan
                                      THEN ProbAjustada(row) ELSE prob_aband
                     /\ IF d = "vacio"
                        THEN pc' = "retorno" /\ camino' = "ninguno"
                                             /\ excepcion' = excepcion
                        ELSE IF d = "ValueError"
                        THEN pc' = "excepcion" /\ camino' = "ninguno"
                                               /\ excepcion' = d
                        ELSE pc' = "simular" /\ camino' = d
                                             /\ excepcion' = excepcion
            /\ sorteos' = IF RamaElse(row) /\ ~row.rating.nan
                          THEN sorteos + 1 ELSE sorteos
    /\ UNCHANGED <<row, hash_str, ahora, num_sesiones, fecha_actual, timestamps,
                   dias, i, progreso_total, progreso_acumulado, sesiones, duracion,
                   perfil, lote,
                   resenas>>

(***************************************************************************)
(* Head of simular_sesiones_completado / _abandono_temprano /              *)
(* _abandono_medio: session count, start date, call of the pattern         *)
(* generator.                                                              *)
(***************************************************************************)
IniciarSimulacion(m) ==
    /\ pc = "simular"
    /\ perfil' = determinar_perfil_lector(row.user_id)
    /\ sorteos' = sorteos + 2
    /\ \E n \in RangoSesiones(camino, num_pages) \cap m.sesiones :
         \E dias_atras \in RangoDiasAtras(camino) \cap m.dias_atras :
           /\ num_sesiones' = n
           /\ fecha_actual' = ahora - dias_atras
    /\ pc' = "patron"
    /\ i' = 0
    /\ timestamps' = <<>>
    /\ dias' = <<>>
    /\ UNCHANGED <<row, hash_str, ahora, camino, excepcion, num_pages, prob_aband,
                   progreso_total, progreso_acumulado, sesiones, duracion, lote,
                   resenas>>

\* Mutant: the target progress is rounded up instead of truncated.
FijarProgresoTotal_HaciaArriba(m) ==
    /\ pc = "patron"
    /\ i = num_sesiones
    /\ \E f \in RangoFraccion(camino) \cap m.fraccion :
         progreso_total' = (num_pages * f) \div 1000 + 1
    /\ progreso_acumulado' = 0
    /\ sesiones' = <<>>
    /\ i' = 0
    /\ pc' = "sesiones"
    /\ sorteos' = IF camino = "completado" THEN sorteos ELSE sorteos + 1
    /\ UNCHANGED <<row, hash_str, ahora, camino, excepcion, num_pages, prob_aband,
                   num_sesiones, fecha_actual, timestamps, dias, duracion,
                   perfil, lote,
                   resenas>>

\* Return of the pattern generator and draw of the target progress
\* (lines 289-291, 392-394, 488-490).
FijarProgresoTotal(m) ==
    /\ pc = "patron"
    /\ i = num_sesiones
    /\ \E f \in RangoFraccion(camino) \cap m.fraccion :
         progreso_total' = (num_pages * f) \div 1000
    /\ progreso_acumulado' = 0
    /\ sesiones' = <<>>
    /\ i' = 0
    /\ pc' = "sesiones"
    /\ sorteos' = IF camino = "completado" THEN sorteos ELSE sorteos + 1
    /\ UNCHANGED <<row, hash_str, ahora, camino, excepcion, num_pages, prob_aband,
                   num_sesiones, fecha_actual, timestamps, dias, duracion,
                   perfil, lote,
                   resenas>>

(***************************************************************************)
(* The session loops.                                                      *)
(***************************************************************************)
\* int(np.random.normal(media, desviacion)) with media = num / den.  The
\* deviation is a positive multiple of paginas_restantes, so the draw is
\* exactly int(0) when nothing remains and any integer otherwise: a draw
\* below 1, the integer part of the mean, a draw above what remains.
NormalInt(num, den, paginas_restantes, m) ==
    IF paginas_restantes = 0 THEN {0}
    ELSE {0 - 1 : k \in m.normal \cap {"bajo"}}
         \cup {num \div den : k \in m.normal \cap {"media"}}
         \cup {paginas_restantes + 1 : k \in m.normal \cap {"alto"}}

\* Mutant: the cap at the remaining pages is left out.
PaginasSesion_SinTope(d, paginas_restantes) == Max(1, d)

\* max(1, int(...)) then min(paginas_sesion, paginas_restantes)
PaginasSesion(d, paginas_restantes) == Min(Max(1, d), paginas_restantes)

\* Mutant: progress_start is read after the accumulation.
RegistroSesion_InicioTrasAcumular(ts_start, duracion_minutos, acumulado, paginas_sesion, np) ==
    [session_start        |-> ts_start,
     session_end          |-> ts_start * 100 + duracion_minutos,
     duration_minutes     |-> duracion_minutos,
     progress_start       |-> acumulado + paginas_sesion,
     progress_end         |-> acumulado + paginas_sesion,
     pages_read           |-> paginas_sesion,
     completion_pct_start |-> (acumulado * 10000) \div np,
     completion_pct_end   |-> ((acumulado + paginas_sesion) * 10000) \div np]

\* Mutant: progress_end forgets the pages accumulated before the session.
RegistroSesion_FinSinAcumulado(ts_start, duracion_minutos, acumulado, paginas_sesion, np) ==
    [session_start        |-> ts_start,
     session_end          |-> ts_start * 100 + duracion_minutos,
     duration_minutes     |-> duracion_minutos,
     progress_start       |-> acumulado,
     progress_end         |-> paginas_sesion,
     pages_read           |-> paginas_sesion,
     completion_pct_start |-> (acumulado * 10000) \div np,
     completion_pct_end   |-> ((acumulado + paginas_sesion) * 10000) \div np]

\* The sesion dictionary (lines 329-340, 424-435, 525-536); session_end and
\* duration_minutes in 1/100 minute, completion_pct_* in 1/100 percent.
RegistroSesion(ts_start, duracion_minutos, acumulado, paginas_sesion, np) ==
    [session_start        |-> ts_start,
     session_end          |-> ts_start * 100 + duracion_minutos,
     duration_minutes     |-> duracion_minutos,
     progress_start       |-> acumulado,
     progress_end         |-> acumulado + paginas_sesion,
     pages_read           |-> paginas_sesion,
     completion_pct_start |-> (acumulado * 10000) \div np,
     completion_pct_end   |-> ((acumulado + paginas_sesion) * 10000) \div np]

\* Tail of the loop body: duration, record, append, accumulate.  previos is
\* the number of draws the iteration took before the duration is computed.
AgregarSesion(paginas_sesion, previos, m) ==
    /\ \E velocidad \in Velocidades(perfil, m) :
         \E ruido \in Ruidos(paginas_sesion, row.genres, velocidad, m) :
           sesiones' = Append(sesiones,
               RegistroSesion(timestamps[i + 1],
                   calcular_duracion_sesion(paginas_sesion, row.genres,
                                            velocidad, ruido),
                   progreso_acumulado, paginas_sesion, num_pages))
    /\ progreso_acumulado' = progreso_acumulado + paginas_sesion
    /\ i' = i + 1
    /\ sorteos' = sorteos + previos + 2
    /\ UNCHANGED <<row, hash_str, ahora, pc, camino, excepcion, num_pages,
                   prob_aband, num_sesiones, fecha_actual, timestamps, dias,
                   progreso_total, duracion, perfil, lote,
                   resenas>>

\* Mutant: the last-session test is off by one, so the last session draws
\* its pages like the others.
simular_sesiones_completado_UltimaSorteada(m) ==
    /\ pc = "sesiones"
    /\ camino = "completado"
    /\ i < num_sesiones
    /\ LET paginas_restantes == progreso_total - progreso_acumulado
           factor == IF EsTemprana(i, num_sesiones) THEN 13 ELSE 10
       IN  IF i = num_sesiones
           THEN AgregarSesion(paginas_restantes, 0, m)
           ELSE \E d \in NormalInt(paginas_restantes * factor,
                                   (num_sesiones - i) * 10,
                                   paginas_restantes, m) :
                  AgregarSesion(PaginasSesion(d, paginas_restantes), 1, m)

\* One iteration of the loop of lines 293-343.
simular_sesiones_completado(m) ==
    /\ pc = "sesiones"
    /\ camino = "completado"
    /\ i < num_sesiones
    /\ LET paginas_restantes == progreso_total - progreso_acumulado
           factor == IF EsTemprana(i, num_sesiones) THEN 13 ELSE 10
       IN  IF i = num_sesiones - 1
           THEN AgregarSesion(paginas_restantes, 0, m)
           ELSE \E d \in NormalInt(paginas_restantes * factor,
                                   (num_sesiones - i) * 10,
                                   paginas_restantes, m) :
                  AgregarSesion(PaginasSesion(d, paginas_restantes), 1, m)

\* One iteration of the loop of lines 396-438;
\* factor_decaimiento = 1.2 - i / num_sesiones.
simular_sesiones_abandono_temprano(m) ==
    /\ pc = "sesiones"
    /\ camino = "temprano"
    /\ i < num_sesiones
    /\ LET paginas_restantes == progreso_total - progreso_acumulado
       IN  IF i = num_sesiones - 1
           THEN AgregarSesion(paginas_restantes, 0, m)
           ELSE \E d \in NormalInt(
                           paginas_restantes * (12 * num_sesiones - 10 * i),
                           (num_sesiones - i) * 10 * num_sesiones,
                           paginas_restantes, m) :
                  AgregarSesion(PaginasSesion(d, paginas_restantes), 1, m)

\* One iteration of the loop of lines 492-539; u is the np.random.random()
\* draw that picks factor 0.5 or 1.0.
simular_sesiones_abandono_medio(m) ==
    /\ pc = "sesiones"
    /\ camino = "medio"
    /\ i < num_sesiones
    /\ LET paginas_restantes == progreso_total - progreso_acumulado
       IN  IF i = num_sesiones - 1
           THEN AgregarSesion(paginas_restantes, 0, m)
           ELSE \E u \in m.random :
                  LET factor == IF u < 3000 THEN 5 ELSE 10
                  IN  \E d \in NormalInt(paginas_restantes * factor,
                                         (num_sesiones - i) * 10,
                                         paginas_restantes, m) :
                        AgregarSesion(PaginasSesion(d, paginas_restantes), 2, m)

\* return sesiones
Retornar ==
    /\ pc = "sesiones"
    /\ i = num_sesiones
    /\ pc' = "retorno"
    /\ UNCHANGED <<row, hash_str, ahora, camino, excepcion, num_pages, prob_aband,
                   num_sesiones, fecha_actual, timestamps, dias, i,
                   progreso_total, progreso_acumulado, sesiones, duracion,
                   perfil, sorteos, lote,
                   resenas>>

(***************************************************************************)
(* Inputs.                                                                 *)
(***************************************************************************)
UserIds == {1, 2, 3}
Generos == {"fiction", "non-fiction", "poetry", "comics", "default", "fantasy"}
Perfiles == {"rapido", "medio", "lento"}
Ratings == {NaN} \cup {Num(k) : k \in 1 .. 5}

Crudo(tipo, v) == [tipo |-> tipo, v |-> v]
\* missing, non-numeric, negative, zero, 0.5, 1, 2.9, 7, 20 pages
NumPagesCrudos ==
    {Crudo("nan", 0), Crudo("texto", 0)}
    \cup {Crudo("num", t) : t \in {0 - 50, 0, 5, 10, 29, 70, 200}}

Fila(user_id, is_read, rating, crudo, genres, ab, en, co, ri) ==
    [user_id |-> user_id, book_id |-> 10, is_read |-> is_read,
     rating |-> rating, num_pages |-> crudo, genres |-> genres,
     abandono_score |-> ab, engagement_score |-> en,
     complejidad_score |-> co, ritmo_score |-> ri]

\* Rows of the main specification: every is_read and rating for a 7-page
\* book; every raw page count for a read book rated 1, 3 or 5; review scores
\* for rating 3; every genre and reader for a read 20-page book rated 5.
Filas ==
    {Fila(1, ir, rt, Crudo("num", 70), "fiction", 0, 0, 0, 0) :
        ir \in {0, 1}, rt \in Ratings}
    \cup {Fila(1, 1, Num(k), cr, "fiction", 0, 0, 0, 0) :
        k \in {1, 3, 5}, cr \in NumPagesCrudos}
    \cup {Fila(1, 1, Num(3), Crudo("num", 70), "fiction", ab, en, 0, ri) :
        ab \in {0, 80}, en \in {0 - 30, 0 - 20, 100}, ri \in {0 - 50, 0}}
    \cup {Fila(u, 1, Num(5), Crudo("num", 200), g, 0, 0, 0, 0) :
        u \in UserIds, g \in Generos}

\* One outcome of the per-process string hash: a fast, a medium, a slow reader.
HashMuestras == {[u \in UserIds |-> CASE u = 1 -> 10 [] u = 2 -> 50 [] OTHER -> 90]}

Ahoras == {1000}

DuracionLibre ==
    [paginas_leidas |-> 0, perfil_lector |-> "medio", genero |-> "default",
     velocidad |-> 0, ruido |-> 0, ret |-> 0 - 1]

\* Nothing drawn yet, no profile computed, a single run of a single call.
\* Python's None, and an integer where None may stand instead.
None == [none |-> TRUE, v |-> 0]
Entero(k) == [none |-> FALSE, v |-> k]

\* Nothing of the review analysis is running.
SinResenas ==
    /\ reviews_texto_lista = <<>>
    /\ features_individuales = <<>>
    /\ features_libro = None
    /\ reviews_por_libro = <<>>
    /\ total_reviews = 0
    /\ max_libros = None
    /\ sample_reviews_per_book = 50

SinLote ==
    /\ perfil = "ninguno"
    /\ sorteos = 0
    /\ corrida = 1
    /\ referencia = <<>>
    /\ pendientes = <<>>

\* Draws explored by the main specification.
MuestraPrincipal ==
    [sesiones |-> 1 .. 39, tope |-> MaxSes,
     dias_atras |-> {60}, gaps |-> {1}, horas |-> {20}, minutos |-> {30},
     random |-> {0, 9999}, fraccion |-> {50, 175, 299, 300, 500, 699, 1000},
     normal |-> {"bajo", "media", "alto"},
     velocidad |-> {150, 200, 300}, ruido |-> {0}]

\* Draws explored for the pattern generator on its own.
MuestraPatron ==
    [sesiones |-> 1 .. 39, tope |-> MaxSes,
     dias_atras |-> {60}, gaps |-> {0, 1, 2, 3, 4, 5, 7}, horas |-> {8, 23},
     minutos |-> {30}, random |-> {0}, fraccion |-> {1000},
     normal |-> {"media"}, velocidad |-> {200}, ruido |-> {0}]

\* Draws explored for the duration function on its own.
MuestraDuracion ==
    [sesiones |-> 1 .. 39, tope |-> MaxSes,
     dias_atras |-> {60}, gaps |-> {1}, horas |-> {20}, minutos |-> {30},
     random |-> {0}, fraccion |-> {1000}, normal |-> {"media"},
     velocidad |-> {120, 180, 250, 350},
     ruido |-> {0 - 100000, 0 - 500, 0 - 1, 0, 1, 500}]

(***************************************************************************)
(* Main specification: one call of simular_para_interaccion.               *)
(***************************************************************************)
Init ==
    /\ row \in Filas
    /\ hash_str \in HashMuestras
    /\ ahora \in Ahoras
    /\ pc = "llamada"
    /\ camino = "ninguno"
    /\ excepcion = "ninguna"
    /\ num_pages = 0
    /\ prob_aband = 0 - 1
    /\ num_sesiones = 0
    /\ fecha_actual = 0
    /\ timestamps = <<>>
    /\ dias = <<>>
    /\ i = 0
    /\ progreso_total = 0
    /\ progreso_acumulado = 0
    /\ sesiones = <<>>
    /\ duracion = DuracionLibre
    /\ SinLote
    /\ SinResenas

Next ==
    \/ simular_para_interaccion(MuestraPrincipal)
    \/ IniciarSimulacion(MuestraPrincipal)
    \/ PatronPaso(MuestraPrincipal)
    \/ FijarProgresoTotal(MuestraPrincipal)
    \/ simular_sesiones_completado(MuestraPrincipal)
    \/ simular_sesiones_abandono_temprano(MuestraPrincipal)
    \/ simular_sesiones_abandono_medio(MuestraPrincipal)
    \/ Retornar

Spec == Init /\ [][Next]_vars

(***************************************************************************)
(* generar_patron_temporal_sesiones on its own: its arguments are drawn in *)
(* the initial state and the loop runs to the return of timestamps.        *)
(***************************************************************************)
InitPatron ==
    /\ row = Fila(1, 1, Num(5), Crudo("num", 70), "fiction", 0, 0, 0, 0)
    /\ hash_str \in HashMuestras
    /\ ahora \in Ahoras
    /\ pc = "patron"
    /\ camino = "ninguno"
    /\ excepcion = "ninguna"
    /\ num_pages = 0
    /\ prob_aband = 0 - 1
    /\ num_sesiones \in 1 .. MaxSesPatron
    /\ \E dias_atras \in {60, 62} : fecha_actual = ahora - dias_atras
    /\ timestamps = <<>>
    /\ dias = <<>>
    /\ i = 0
    /\ progreso_total = 0
    /\ progreso_acumulado = 0
    /\ sesiones = <<>>
    /\ duracion = DuracionLibre
    /\ SinLote
    /\ SinResenas

NextPatron == PatronPaso(MuestraPatron)

SpecPatron == InitPatron /\ [][NextPatron]_vars

(***************************************************************************)
(* calcular_duracion_sesion on its own.                                    *)
(***************************************************************************)
InitDuracion ==
    /\ row = Fila(1, 1, Num(5), Crudo("num", 70), "fiction", 0, 0, 0, 0)
    /\ hash_str \in HashMuestras
    /\ ahora \in Ahoras
    /\ pc = "duracion"
    /\ camino = "ninguno"
    /\ excepcion = "ninguna"
    /\ num_pages = 0
    /\ prob_aband = 0 - 1
    /\ num_sesiones = 0
    /\ fecha_actual = 0
    /\ timestamps = <<>>
    /\ dias = <<>>
    /\ i = 0
    /\ progreso_total = 0
    /\ progreso_acumulado = 0
    /\ SinLote
    /\ SinResenas
    /\ sesiones = <<>>
    /\ \E p \in 0 .. MaxPaginasDur, pf \in Perfiles, g \in Generos :
         duracion = [DuracionLibre EXCEPT !.paginas_leidas = p,
                                          !.perfil_lector = pf, !.genero = g]

CalcularDuracion(m) ==
    /\ pc = "duracion"
    /\ \E velocidad \in Velocidades(duracion.perfil_lector, m) :
         \E ruido \in Ruidos(duracion.paginas_leidas, duracion.genero,
                             velocidad, m) :
           duracion' = [duracion EXCEPT
               !.velocidad = velocidad, !.ruido = ruido,
               !.ret = calcular_duracion_sesion(duracion.paginas_leidas,
                           duracion.genero, velocidad, ruido)]
    /\ pc' = "duracion_retorno"
    /\ sorteos' = sorteos + 2
    /\ UNCHANGED <<row, hash_str, ahora, camino, excepcion, num_pages, prob_aband,
                   num_sesiones, fecha_actual, timestamps, dias, i,
                   progreso_total, progreso_acumulado, sesiones, perfil, lote,
                   resenas>>

NextDuracion == CalcularDuracion(MuestraDuracion)

SpecDuracion == InitDuracion /\ [][NextDuracion]_vars

(***************************************************************************)
(* The decision of simular_para_interaccion on its own: the row is drawn   *)
(* from every is_read and rating and a grid of review scores, and the call *)
(* runs up to the choice of the path.                                      *)
(***************************************************************************)
FilasDecision ==
    {Fila(1, ir, rt, Crudo("num", 70), "fiction", ab, en, co, ri) :
        ir \in {0, 1}, rt \in Ratings,
        ab \in {0 - 100, 0, 80, 250},
        en \in {0 - 100, 0 - 21, 0 - 20, 0, 50, 250},
        co \in {0 - 100, 0, 50, 250},
        ri \in {0 - 250, 0 - 50, 0, 100}}

MuestraDecision ==
    [sesiones |-> 1 .. 39, tope |-> MaxSes,
     dias_atras |-> {60}, gaps |-> {1}, horas |-> {20}, minutos |-> {30},
     random |-> {0, 499, 2499, 2500, 3999, 4000, 5999, 6000, 8299, 8300, 9999},
     fraccion |-> {1000}, normal |-> {"media"},
     velocidad |-> {200}, ruido |-> {0}]

InitDecision ==
    /\ row \in FilasDecision
    /\ hash_str \in HashMuestras
    /\ ahora \in Ahoras
    /\ pc = "llamada"
    /\ camino = "ninguno"
    /\ excepcion = "ninguna"
    /\ num_pages = 0
    /\ prob_aband = 0 - 1
    /\ num_sesiones = 0
    /\ fecha_actual = 0
    /\ timestamps = <<>>
    /\ dias = <<>>
    /\ i = 0
    /\ progreso_total = 0
    /\ progreso_acumulado = 0
    /\ sesiones = <<>>
    /\ duracion = DuracionLibre
    /\ SinLote
    /\ SinResenas

NextDecision == simular_para_interaccion(MuestraDecision)

SpecDecision == InitDecision /\ [][NextDecision]_vars

(***************************************************************************)
(* determinar_perfil_lector on its own, called in two processes.  The      *)
(* value of hash(str(user_id)) % 100 is a state of the interpreter: it is  *)
(* fixed while a process lives and drawn again when a new one starts.      *)
(***************************************************************************)
Cubos == 0 .. 99

HashDeProceso == {[u \in UserIds |-> IF u = 1 THEN b ELSE 50] : b \in Cubos}

InitPerfil ==
    /\ row = Fila(1, 1, Num(5), Crudo("num", 70), "fiction", 0, 0, 0, 0)
    /\ hash_str \in HashDeProceso
    /\ ahora \in Ahoras
    /\ pc = "perfil"
    /\ camino = "ninguno"
    /\ excepcion = "ninguna"
    /\ num_pages = 0
    /\ prob_aband = 0 - 1
    /\ num_sesiones = 0
    /\ fecha_actual = 0
    /\ timestamps = <<>>
    /\ dias = <<>>
    /\ i = 0
    /\ progreso_total = 0
    /\ progreso_acumulado = 0
    /\ sesiones = <<>>
    /\ duracion = DuracionLibre
    /\ SinLote
    /\ SinResenas

\* perfil = self.determinar_perfil_lector(user_id)
DeterminarPerfil ==
    /\ pc = "perfil"
    /\ perfil' = determinar_perfil_lector(row.user_id)
    /\ pc' = "perfil_retorno"
    /\ UNCHANGED <<row, hash_str, ahora, camino, excepcion, num_pages, prob_aband,
                   num_sesiones, fecha_actual, timestamps, dias, i,
                   progreso_total, progreso_acumulado, sesiones, duracion,
                   sorteos, lote,
                   resenas>>

\* The program is started again: the interpreter salts the string hash anew.
NuevoProceso ==
    /\ pc = "perfil_retorno"
    /\ corrida = 1
    /\ corrida' = 2
    /\ referencia' = [perfil |-> perfil, sesiones |-> sesiones]
    /\ hash_str' \in HashDeProceso
    /\ perfil' = "ninguno"
    /\ pc' = "perfil"
    /\ UNCHANGED <<row, ahora, camino, excepcion, num_pages, prob_aband,
                   num_sesiones, fecha_actual, timestamps, dias, i,
                   progreso_total, progreso_acumulado, sesiones, duracion,
                   sorteos, pendientes,
                   resenas>>

NextPerfil == DeterminarPerfil \/ NuevoProceso

SpecPerfil == InitPerfil /\ [][NextPerfil]_vars

(***************************************************************************)
(* Two runs of procesar_interacciones_y_generar_sesiones with the same     *)
(* seed.  The generator is seeded once per process, so the value of a draw *)
(* is a function of the number of draws taken before it: the sample handed *)
(* to an action is a function of sorteos.  The loop of lines 872-880 calls *)
(* simular_para_interaccion for each row in turn; the second run starts a  *)
(* new process, with its own clock, string hash and order of the rows.     *)
(***************************************************************************)
Objetivo == Fila(1, 1, Num(5), Crudo("num", 70), "fiction", 0, 0, 0, 0)

Otra == Fila(2, 1, Num(1), Crudo("num", 200), "fantasy", 0, 0, 0, 0)

Ordenes == {<<Objetivo>>, <<Otra, Objetivo>>, <<Objetivo, Otra>>}

\* The draws of the seeded stream at position k.
MuestraSemilla(k) ==
    [sesiones |-> {3 + (k % 2)}, tope |-> MaxSes,
     dias_atras |-> {60 + (k % 5)}, gaps |-> {1 + (k % 2)},
     horas |-> {20 + (k % 2)}, minutos |-> {30 + (k % 7)},
     random |-> {(k * 1237) % 10000}, fraccion |-> {175, 1000},
     normal |-> {"media"}, velocidad |-> {150, 200, 300}, ruido |-> {0}]

InitDosCorridas ==
    /\ \E orden \in Ordenes :
         /\ row = Head(orden)
         /\ pendientes = Tail(orden)
         /\ hash_str \in HashMuestras
         /\ ahora \in Ahoras
         /\ referencia = [filas |-> orden, filas_nuevas |-> <<>>,
                          ahora |-> ahora, hash_str |-> hash_str,
                          perfil |-> "ninguno", sesiones |-> <<>>]
    /\ corrida = 1
    /\ sorteos = 0
    /\ perfil = "ninguno"
    /\ pc = "llamada"
    /\ camino = "ninguno"
    /\ excepcion = "ninguna"
    /\ num_pages = 0
    /\ prob_aband = 0 - 1
    /\ num_sesiones = 0
    /\ fecha_actual = 0
    /\ timestamps = <<>>
    /\ dias = <<>>
    /\ i = 0
    /\ progreso_total = 0
    /\ progreso_acumulado = 0
    /\ sesiones = <<>>
    /\ duracion = DuracionLibre
    /\ SinResenas

\* What the first run produced for Objetivo is kept for the comparison.
Anotar ==
    IF corrida = 1 /\ row = Objetivo
    THEN [referencia EXCEPT !.perfil = perfil, !.sesiones = sesiones]
    ELSE referencia

\* The locals of a call of simular_para_interaccion before it starts.
NuevaLlamada ==
    /\ pc' = "llamada"
    /\ camino' = "ninguno"
    /\ num_pages' = 0
    /\ prob_aband' = 0 - 1
    /\ num_sesiones' = 0
    /\ fecha_actual' = 0
    /\ timestamps' = <<>>
    /\ dias' = <<>>
    /\ i' = 0
    /\ progreso_total' = 0
    /\ progreso_acumulado' = 0
    /\ sesiones' = <<>>
    /\ perfil' = "ninguno"

\* for idx, row in df_merged.iterrows(): the next row, same generator.
SiguienteFila ==
    /\ pc = "retorno"
    /\ pendientes # <<>>
    /\ row' = Head(pendientes)
    /\ pendientes' = Tail(pendientes)
    /\ referencia' = Anotar
    /\ NuevaLlamada
    /\ UNCHANGED <<hash_str, ahora, excepcion, duracion, sorteos, corrida,
                   resenas>>

\* The program is run again: np.random.seed(42) rewinds the stream, while
\* datetime.now() and the salt of the string hash are those of the new
\* process.
SegundaCorrida ==
    /\ pc = "retorno"
    /\ pendientes = <<>>
    /\ corrida = 1
    /\ corrida' = 2
    /\ sorteos' = 0
    /\ ahora' \in {ahora, ahora + 1}
    /\ hash_str' \in {hash_str} \cup {h \in HashDeProceso : h[1] = 90}
    /\ \E orden \in Ordenes :
         /\ row' = Head(orden)
         /\ pendientes' = Tail(orden)
         /\ referencia' = [Anotar EXCEPT !.filas_nuevas = orden]
    /\ NuevaLlamada
    /\ UNCHANGED <<excepcion, duracion,
                   resenas>>

NextDosCorridas ==
    \/ simular_para_interaccion(MuestraSemilla(sorteos))
    \/ IniciarSimulacion(MuestraSemilla(sorteos))
    \/ PatronPaso(MuestraSemilla(sorteos))
    \/ FijarProgresoTotal(MuestraSemilla(sorteos))
    \/ simular_sesiones_completado(MuestraSemilla(sorteos))
    \/ simular_sesiones_abandono_temprano(MuestraSemilla(sorteos))
    \/ Retornar
    \/ SiguienteFila
    \/ SegundaCorrida

SpecDosCorridas == InitDosCorridas /\ [][NextDosCorridas]_vars

(***************************************************************************)
(* The scenario of a 320-page book read to the end and rated 5: every      *)
(* session count of its bracket is drawn and its loops are unrolled.       *)
(***************************************************************************)
FilasEscenario ==
    {Fila(u, 1, Num(5), Crudo("num", 3200), g, 0, 0, 0, 0) :
        u \in UserIds, g \in {"fiction", "default"}}

MuestraEscenario ==
    [sesiones |-> 1 .. 39, tope |-> MaxSesEscenario,
     dias_atras |-> {60}, gaps |-> {1}, horas |-> {20}, minutos |-> {30},
     random |-> {0, 9999}, fraccion |-> {1000},
     normal |-> {"media", "alto"},
     velocidad |-> {150, 200, 300}, ruido |-> {0}]

InitEscenario ==
    /\ row \in FilasEscenario
    /\ hash_str \in HashMuestras
    /\ ahora \in Ahoras
    /\ pc = "llamada"
    /\ camino = "ninguno"
    /\ excepcion = "ninguna"
    /\ num_pages = 0
    /\ prob_aband = 0 - 1
    /\ num_sesiones = 0
    /\ fecha_actual = 0
    /\ timestamps = <<>>
    /\ dias = <<>>
    /\ i = 0
    /\ progreso_total = 0
    /\ progreso_acumulado = 0
    /\ sesiones = <<>>
    /\ duracion = DuracionLibre
    /\ SinLote
    /\ SinResenas

NextEscenario ==
    \/ simular_para_interaccion(MuestraEscenario)
    \/ IniciarSimulacion(MuestraEscenario)
    \/ PatronPaso(MuestraEscenario)
    \/ FijarProgresoTotal(MuestraEscenario)
    \/ simular_sesiones_completado(MuestraEscenario)
    \/ Retornar

SpecEscenario == InitEscenario /\ [][NextEscenario]_vars

(***************************************************************************)
(* The conversion of num_pages on its own: every kind of raw cell, for     *)
(* every is_read and rating.                                               *)
(***************************************************************************)
FilasPaginas ==
    {Fila(1, ir, rt, cr, "fiction", 0, 0, 0, 0) :
        ir \in {0, 1}, rt \in Ratings,
        cr \in NumPagesCrudos \cup {Crudo("inf", 0)}
                \cup {Crudo("num", t) : t \in {0 - 1, 9, 11, 3000, 3209}}}

InitPaginas ==
    /\ row \in FilasPaginas
    /\ hash_str \in HashMuestras
    /\ ahora \in Ahoras
    /\ pc = "llamada"
    /\ camino = "ninguno"
    /\ excepcion = "ninguna"
    /\ num_pages = 0
    /\ prob_aband = 0 - 1
    /\ num_sesiones = 0
    /\ fecha_actual = 0
    /\ timestamps = <<>>
    /\ dias = <<>>
    /\ i = 0
    /\ progreso_total = 0
    /\ progreso_acumulado = 0
    /\ sesiones = <<>>
    /\ duracion = DuracionLibre
    /\ SinLote
    /\ SinResenas

NextPaginas == simular_para_interaccion(MuestraDecision)

SpecPaginas == InitPaginas /\ [][NextPaginas]_vars

(***************************************************************************)
(* AnalizadorReviews of Proyecto1/01b_analizar_reviews.py.  A review text  *)
(* is a sequence of tokens: a markup tag, a blank, or a word; an entry of  *)
(* the list is a text or a missing value.  The keyword tables keep the     *)
(* words of the source lists that the explored texts use.                  *)
(***************************************************************************)
keywords_abandono == {"dnf"}
keywords_engagement_alto == {"addictive", "gripping"}
keywords_engagement_bajo == {"boring", "slow"}
keywords_complejo == {"dense"}
keywords_simple == {"simple"}
keywords_ritmo_lento == {"slow"}
keywords_ritmo_rapido == {"thrilling"}
keywords_emocional_alto == {"moving"}
keywords_emocional_bajo == {"flat"}

Falta == [nan |-> TRUE, texto |-> <<>>]
Texto(tokens) == [nan |-> FALSE, texto |-> tokens]

\* str.lower() of a token
Minuscula(t) == IF t = "Gripping" THEN "gripping" ELSE t

NoEsTag(t) == t # "<br>"
NoEsBlanco(t) == t # " "

\* ' '.join(palabras)
RECURSIVE Unir(_)
Unir(palabras) ==
    IF Len(palabras) <= 1 THEN palabras
    ELSE <<Head(palabras), " ">> \o Unir(Tail(palabras))

\* limpiar_texto: '' for a missing or empty text; else lower case, tags
\* removed, blanks normalised by split and join.
limpiar_texto(review) ==
    IF review.nan \/ review.texto = <<>> THEN <<>>
    ELSE LET minusculas == [k \in 1 .. Len(review.texto) |->
                               Minuscula(review.texto[k])]
             sin_tags == SelectSeq(minusculas, NoEsTag)
         IN  Unir(SelectSeq(sin_tags, NoEsBlanco))

\* contar_keywords: occurrences of the keywords in the cleaned text
contar_keywords(texto, keywords) ==
    LET texto_limpio == limpiar_texto(Texto(texto))
        EsKeyword(t) == t \in keywords
    IN  Len(SelectSeq(texto_limpio, EsKeyword))

\* Mutant: an empty entry is analysed like a text without keywords.
analizar_review_individual_VaciaCuenta(review_texto) ==
    IF review_texto.nan THEN None
    ELSE LET texto == limpiar_texto(review_texto)
         IN  [abandono_mencionado |-> contar_keywords(texto, keywords_abandono),
              engagement_alto |-> contar_keywords(texto, keywords_engagement_alto),
              engagement_bajo |-> contar_keywords(texto, keywords_engagement_bajo),
              complejidad_alta |-> contar_keywords(texto, keywords_complejo),
              lectura_facil |-> contar_keywords(texto, keywords_simple),
              ritmo_lento |-> contar_keywords(texto, keywords_ritmo_lento),
              ritmo_rapido |-> contar_keywords(texto, keywords_ritmo_rapido),
              emocional_alto |-> contar_keywords(texto, keywords_emocional_alto),
              emocional_bajo |-> contar_keywords(texto, keywords_emocional_bajo)]

\* analizar_review_individual, lines 138-171
analizar_review_individual(review_texto) ==
    IF review_texto.nan \/ review_texto.texto = <<>> THEN None
    ELSE LET texto == limpiar_texto(review_texto)
         IN  [abandono_mencionado |-> contar_keywords(texto, keywords_abandono),
              engagement_alto |-> contar_keywords(texto, keywords_engagement_alto),
              engagement_bajo |-> contar_keywords(texto, keywords_engagement_bajo),
              complejidad_alta |-> contar_keywords(texto, keywords_complejo),
              lectura_facil |-> contar_keywords(texto, keywords_simple),
              ritmo_lento |-> contar_keywords(texto, keywords_ritmo_lento),
              ritmo_rapido |-> contar_keywords(texto, keywords_ritmo_rapido),
              emocional_alto |-> contar_keywords(texto, keywords_emocional_alto),
              emocional_bajo |-> contar_keywords(texto, keywords_emocional_bajo)]

\* df_features[campo].sum()
RECURSIVE SumaCampo(_, _)
SumaCampo(fs, campo) ==
    IF fs = <<>> THEN 0 ELSE Head(fs)[campo] + SumaCampo(Tail(fs), campo)

\* The float quotient num / den, kept as the pair.
Cociente(num, den) == [num |-> num, den |-> den]

\* The features_libro dictionary of lines 201-242.
FeaturesLibro(fs) ==
    LET total == Len(fs)
    IN  [num_reviews_analizadas |-> total,
         abandono_score |-> Cociente(SumaCampo(fs, "abandono_mencionado"), total),
         engagement_score |-> Cociente(SumaCampo(fs, "engagement_alto")
                                  - SumaCampo(fs, "engagement_bajo"), total),
         complejidad_score |-> Cociente(SumaCampo(fs, "complejidad_alta")
                                  - SumaCampo(fs, "lectura_facil"), total),
         ritmo_score |-> Cociente(SumaCampo(fs, "ritmo_rapido")
                                  - SumaCampo(fs, "ritmo_lento"), total),
         emocional_score |-> Cociente(SumaCampo(fs, "emocional_alto")
                                  - SumaCampo(fs, "emocional_bajo"), total),
         menciones_abandono |-> SumaCampo(fs, "abandono_mencionado"),
         menciones_engagement_positivo |-> SumaCampo(fs, "engagement_alto"),
         menciones_complejidad |-> SumaCampo(fs, "complejidad_alta"),
         menciones_ritmo_lento |-> SumaCampo(fs, "ritmo_lento"),
         menciones_emocional |-> SumaCampo(fs, "emocional_alto")]

\* One iteration of the loop of lines 181-184.
AnalizarReview ==
    /\ pc = "analizar"
    /\ i < Len(reviews_texto_lista)
    /\ LET feat == analizar_review_individual(reviews_texto_lista[i + 1])
       IN  features_individuales' =
               IF feat # None THEN Append(features_individuales, feat)
               ELSE features_individuales
    /\ i' = i + 1
    /\ UNCHANGED <<row, hash_str, ahora, pc, camino, excepcion, num_pages,
                   prob_aband, num_sesiones, fecha_actual, timestamps, dias,
                   progreso_total, progreso_acumulado, sesiones, duracion,
                   perfil, sorteos, lote, reviews_texto_lista, features_libro,
                   reviews_por_libro, total_reviews, max_libros,
                   sample_reviews_per_book>>

\* After the loop (or at once for an empty list): None without valid
\* features, else the aggregate.
AgregarFeatures ==
    /\ pc = "analizar"
    /\ i = Len(reviews_texto_lista)
    /\ features_libro' = IF Len(features_individuales) = 0 THEN None
                         ELSE FeaturesLibro(features_individuales)
    /\ pc' = "analizado"
    /\ UNCHANGED <<row, hash_str, ahora, camino, excepcion, num_pages,
                   prob_aband, num_sesiones, fecha_actual, timestamps, dias, i,
                   progreso_total, progreso_acumulado, sesiones, duracion,
                   perfil, sorteos, lote, reviews_texto_lista,
                   features_individuales, reviews_por_libro, total_reviews,
                   max_libros, sample_reviews_per_book>>

\* Entries explored: missing, empty, markup and blanks only, and texts with
\* keywords of each table.
Entradas ==
    {Falta, Texto(<<>>), Texto(<<"<br>", " ">>),
     Texto(<<"Gripping", " ", "addictive">>), Texto(<<"boring">>),
     Texto(<<"dnf", " ", " ", "slow">>), Texto(<<"dense", " ", "thrilling">>),
     Texto(<<"simple", "<br>", " ", "moving">>),
     Texto(<<"flat">>)}

Listas == UNION {[1 .. n -> Entradas] : n \in 0 .. MaxReviews}

\* The simulator is not running.
SinSimulacion ==
    /\ row = Fila(1, 1, Num(5), Crudo("num", 70), "fiction", 0, 0, 0, 0)
    /\ hash_str \in HashMuestras
    /\ ahora \in Ahoras
    /\ camino = "ninguno"
    /\ excepcion = "ninguna"
    /\ num_pages = 0
    /\ prob_aband = 0 - 1
    /\ num_sesiones = 0
    /\ fecha_actual = 0
    /\ timestamps = <<>>
    /\ dias = <<>>
    /\ progreso_total = 0
    /\ progreso_acumulado = 0
    /\ sesiones = <<>>
    /\ duracion = DuracionLibre
    /\ SinLote

InitResenas ==
    /\ SinSimulacion
    /\ pc = "analizar"
    /\ i = 0
    /\ reviews_texto_lista \in Listas
    /\ features_individuales = <<>>
    /\ features_libro = None
    /\ reviews_por_libro = <<>>
    /\ total_reviews = 0
    /\ max_libros = None
    /\ sample_reviews_per_book = 50

NextResenas == AnalizarReview \/ AgregarFeatures

SpecResenas == InitResenas /\ [][NextResenas]_vars

(***************************************************************************)
(* procesar_reviews_goodreads, step 1: the loop that loads the review      *)
(* file.  A line is invalid JSON (or JSON that is no object), or an object *)
(* with a book_id and a review_text, either of which may be missing or     *)
(* empty ("").                                                             *)
(***************************************************************************)
Lineas ==
    {[tipo |-> "invalida", book_id |-> "", review_text |-> ""]}
    \cup {[tipo |-> "json", book_id |-> b, review_text |-> t] :
            b \in {"", "b1", "b2", "b3"}, t \in {"", "texto"}}

\* reviews_por_libro after lines 390-398 for one parsed line
Recoger(line) ==
    IF line.book_id # "" /\ line.review_text # ""
    THEN LET previas == IF line.book_id \in DOMAIN reviews_por_libro
                        THEN reviews_por_libro[line.book_id] ELSE <<>>
             nuevas == IF Len(previas) < sample_reviews_per_book
                       THEN Append(previas, line.review_text) ELSE previas
         IN  [b \in DOMAIN reviews_por_libro \cup {line.book_id} |->
                 IF b = line.book_id THEN nuevas ELSE reviews_por_libro[b]]
    ELSE reviews_por_libro

\* total_reviews += 1 exactly when the text is appended
Contado(line) ==
    /\ line.book_id # ""
    /\ line.review_text # ""
    /\ (line.book_id \in DOMAIN reviews_por_libro =>
          Len(reviews_por_libro[line.book_id]) < sample_reviews_per_book)
    /\ 0 < sample_reviews_per_book

\* if max_libros and len(reviews_por_libro) >= max_libros: break
Detener(libros) ==
    /\ ~max_libros.none
    /\ max_libros.v # 0
    /\ Cardinality(DOMAIN libros) >= max_libros.v

\* One iteration of the loop of lines 378-409.
ProcesarLinea ==
    /\ pc = "cargar"
    /\ i < MaxLineas
    /\ \E line \in Lineas :
         IF line.tipo = "invalida"
         THEN UNCHANGED <<reviews_por_libro, total_reviews, pc>>
         ELSE /\ reviews_por_libro' = Recoger(line)
              /\ total_reviews' = IF Contado(line) THEN total_reviews + 1
                                  ELSE total_reviews
              /\ pc' = IF Detener(Recoger(line)) THEN "cargado" ELSE "cargar"
    /\ i' = i + 1
    /\ UNCHANGED <<row, hash_str, ahora, camino, excepcion, num_pages,
                   prob_aband, num_sesiones, fecha_actual, timestamps, dias,
                   progreso_total, progreso_acumulado, sesiones, duracion,
                   perfil, sorteos, lote, reviews_texto_lista,
                   features_individuales, features_libro, max_libros,
                   sample_reviews_per_book>>

\* The file has no more lines.
FinArchivo ==
    /\ pc = "cargar"
    /\ pc' = "cargado"
    /\ UNCHANGED <<row, hash_str, ahora, camino, excepcion, num_pages,
                   prob_aband, num_sesiones, fecha_actual, timestamps, dias, i,
                   progreso_total, progreso_acumulado, sesiones, duracion,
                   perfil, sorteos, lote, resenas>>

InitCarga ==
    /\ SinSimulacion
    /\ pc = "cargar"
    /\ i = 0
    /\ reviews_texto_lista = <<>>
    /\ features_individuales = <<>>
    /\ features_libro = None
    /\ reviews_por_libro = <<>>
    /\ total_reviews = 0
    /\ max_libros \in {None, Entero(0), Entero(1), Entero(2)}
    /\ sample_reviews_per_book \in {1, 2}

NextCarga == ProcesarLinea \/ FinArchivo

SpecCarga == InitCarga /\ [][NextCarga]_vars

(***************************************************************************)
(* Properties.                                                             *)
(***************************************************************************)
\* An entry that analizar_review_individual does not skip.
NoOmitida(e) == ~e.nan /\ e.texto # <<>>

\* Keyword occurrences of one table over the entries that are not skipped.
RECURSIVE TotalMenciones(_, _)
TotalMenciones(entradas, keywords) ==
    IF entradas = <<>> THEN 0
    ELSE LET e == Head(entradas)
             limpio == limpiar_texto(e)
             aqui == IF NoOmitida(e)
                     THEN Cardinality({k \in 1 .. Len(limpio) : limpio[k] \in keywords})
                     ELSE 0
         IN  aqui + TotalMenciones(Tail(entradas), keywords)

\* Number of texts collected over the books of S.
RECURSIVE TotalTextos(_)
TotalTextos(S) ==
    IF S = {} THEN 0
    ELSE LET b == CHOOSE x \in S : TRUE
         IN  Len(reviews_por_libro[b]) + TotalTextos(S \ {b})

\* Calendar date of the k-th timestamp, and the sum of a list of gaps.
FechaDe(k) == timestamps[k] \div 1440

RECURSIVE SumaDias(_)
SumaDias(gaps) == IF gaps = <<>> THEN 0 ELSE Head(gaps) + SumaDias(Tail(gaps))

Retornado(c) == pc = "retorno" /\ camino = c
Ultima == sesiones[Len(sesiones)]

\* C1: in every session list built by the three simular_sesiones_* loops the
\* first session starts at progress 0 and every later session starts at the
\* progress_end of the session before it.
C1_ProgresoEncadenado ==
    \A k \in 1 .. Len(sesiones) :
        sesiones[k].progress_start =
            (IF k = 1 THEN 0 ELSE sesiones[k - 1].progress_end)

C1_Testigo ==
    /\ Retornado("medio")
    /\ Len(sesiones) >= 3
    /\ sesiones[2].progress_start > 0
    /\ sesiones[3].progress_start > sesiones[2].progress_start

\* C2: the timestamps returned by generar_patron_temporal_sesiones, which
\* become session_start of the sessions in order, strictly increase.
C2_InicioEstrictamenteCreciente ==
    \A k \in 1 .. Len(timestamps) - 1 : timestamps[k] < timestamps[k + 1]

\* C3: a returned Completed list ends at progress_end = num_pages.
C3_CompletadoTerminaEnNumPages ==
    Retornado("completado") => Ultima.progress_end = num_pages

C3_Testigo ==
    /\ Retornado("completado")
    /\ num_pages = 20
    /\ Len(sesiones) = 4
    /\ sesiones[1].pages_read = 1
    /\ Ultima.pages_read > 1

\* C4: a returned Abandoned-early list ends between 5% and 30% of num_pages,
\* up to one page of rounding.
C4_TempranoEntre5y30 ==
    Retornado("temprano") =>
        /\ Ultima.progress_end * 1000 >= 50 * num_pages - 1000
        /\ Ultima.progress_end * 1000 <= 300 * num_pages + 1000

C4_Testigo ==
    /\ Retornado("temprano")
    /\ num_pages = 300
    /\ Len(sesiones) = 4
    /\ Ultima.progress_end = 89

C6_PaginasAlMenosUna ==
    \A k \in 1 .. Len(sesiones) : sesiones[k].pages_read >= 1

\* C7: every generated session has pages_read = progress_end - progress_start.
C7_PaginasEsDiferencia ==
    \A k \in 1 .. Len(sesiones) :
        sesiones[k].pages_read =
            sesiones[k].progress_end - sesiones[k].progress_start

C7_Testigo ==
    /\ Retornado("temprano")
    /\ Len(sesiones) >= 2
    /\ sesiones[2].progress_start > 0
    /\ sesiones[2].pages_read >= 2

\* C8: every generated session has
\* 0 <= progress_start <= progress_end <= target progress <= num_pages, and
\* both completion percentages lie in [0, 100].
C8_ProgresoAcotado ==
    \A k \in 1 .. Len(sesiones) :
        /\ 0 <= sesiones[k].progress_start
        /\ sesiones[k].progress_start <= sesiones[k].progress_end
        /\ sesiones[k].progress_end <= progreso_total
        /\ progreso_total <= num_pages
        /\ sesiones[k].completion_pct_start \in 0 .. 10000
        /\ sesiones[k].completion_pct_end \in 0 .. 10000

\* A draw above the remaining pages was capped in the first session.
C8_Testigo ==
    /\ Retornado("completado")
    /\ num_pages = 20
    /\ Len(sesiones) >= 3
    /\ sesiones[1].progress_end = 20
    /\ sesiones[2].progress_end = 20

\* C9: calcular_duracion_sesion returns at least 5 minutes, and every
\* generated session has duration_minutes >= 5.
C9_DuracionMinima ==
    /\ pc = "duracion_retorno" => duracion.ret >= 500
    /\ \A k \in 1 .. Len(sesiones) : sesiones[k].duration_minutes >= 500

\* The floor acts: zero pages, and a noise far below the base duration.
C9_Testigo ==
    /\ pc = "duracion_retorno"
    /\ duracion.paginas_leidas = MaxPaginasDur
    /\ duracion.ruido < 0 - 500
    /\ duracion.ret = 500

\* C10: simular_para_interaccion never raises.
C10_NuncaLanza == excepcion = "ninguna"

\* C11: an interaction with is_read = 0 and a missing rating returns the
\* empty list, and the call takes no draw from the generator.
C11_SinDatosListaVacia ==
    (row.is_read = 0 /\ row.rating.nan /\ pc # "llamada") =>
        /\ pc = "retorno"
        /\ sesiones = <<>>
        /\ sorteos = 0

C11_Testigo ==
    /\ pc = "retorno"
    /\ row.is_read = 0
    /\ row.rating.nan
    /\ camino = "ninguno"

\* C12: is_read = 1 with rating >= 4 enters the Completed path and every
\* rating <= 2 enters the Abandoned-early path, whatever is_read and the
\* review scores are, and no draw is taken to decide it.
C12_SeleccionDeterminista ==
    pc # "llamada" =>
        /\ (row.is_read = 1 /\ Ge(row.rating, 4)) =>
              (pc = "simular" /\ camino = "completado" /\ sorteos = 0)
        /\ Le(row.rating, 2) =>
              (pc = "simular" /\ camino = "temprano" /\ sorteos = 0)

C12_Testigo ==
    /\ pc = "simular"
    /\ camino = "temprano"
    /\ row.rating = Num(2)
    /\ row.is_read = 1
    /\ row.engagement_score = 250
    /\ row.abandono_score = 0 - 100

\* C13: an interaction rated 4 or 5 never enters an abandoned path, for
\* either value of is_read.
C13_RatingAltoNuncaAbandona ==
    (pc # "llamada" /\ Ge(row.rating, 4)) => camino \notin {"temprano", "medio"}

\* C14: the adjusted abandonment probability used for the coin flip is in
\* [0, 1] for every value of the four review scores.
C14_ProbabilidadAcotada ==
    (pc # "llamada" /\ RamaElse(row) /\ ~row.rating.nan) =>
        (0 <= prob_aband /\ prob_aband <= 10000)

\* The clamp acts: 0.05 - 0.15 is below 0.
C14_Testigo ==
    /\ pc = "simular"
    /\ row.rating = Num(5)
    /\ row.is_read = 0
    /\ row.engagement_score = 250
    /\ row.abandono_score = 0
    /\ row.complejidad_score = 0
    /\ row.ritmo_score = 0
    /\ prob_aband = 0

\* C15: for rating 3 the adjusted probability is the clamp to [0, 1] of
\* 0.40 + 0.25 min(abandono,1) [abandono > 0] - 0.15 min(engagement,1)
\* [engagement > 0] + 0.10 min(complejidad,1) [complejidad > 0]
\* + 0.08 min(|ritmo|,1) [ritmo < 0]; it is 0.60 for abandono 0.8 alone and
\* 0.40 when the four scores are 0.
C15_FormulaRating3 ==
    (pc # "llamada" /\ row.rating = Num(3)) =>
        LET ab == row.abandono_score
            en == row.engagement_score
            co == row.complejidad_score
            ri == row.ritmo_score
            suma == 4000
                    + (IF ab > 0 THEN 25 * Min(ab, 100) ELSE 0)
                    - (IF en > 0 THEN 15 * Min(en, 100) ELSE 0)
                    + (IF co > 0 THEN 10 * Min(co, 100) ELSE 0)
                    + (IF ri < 0 THEN 8 * Min(Abs(ri), 100) ELSE 0)
        IN  /\ prob_aband = Max(0, Min(10000, suma))
            /\ (ab = 80 /\ en = 0 /\ co = 0 /\ ri = 0) => prob_aband = 6000
            /\ (ab = 0 /\ en = 0 /\ co = 0 /\ ri = 0) => prob_aband = 4000

C15_Testigo ==
    /\ pc = "simular"
    /\ row.rating = Num(3)
    /\ row.abandono_score = 80
    /\ row.engagement_score = 0
    /\ row.complejidad_score = 0
    /\ row.ritmo_score = 0
    /\ prob_aband = 6000

\* C17: the same user_id gets the same profile in every run of the program,
\* whatever the hashing state of the process is.
C17_MismoPerfilEntreCorridas ==
    (corrida = 2 /\ pc = "perfil_retorno") => perfil = referencia.perfil

\* C18: of the buckets 0..99, exactly 0..19 (20 of them) map to "rapido",
\* 20..74 (55) to "medio" and 75..99 (25) to "lento"; each bucket maps to
\* exactly one profile.
C18_CortesDePerfil ==
    pc = "perfil_retorno" =>
        LET hash_user == hash_str[row.user_id]
        IN  /\ hash_user \in Cubos
            /\ perfil \in Perfiles
            /\ perfil = "rapido" <=> hash_user \in 0 .. 19
            /\ perfil = "medio" <=> hash_user \in 20 .. 74
            /\ perfil = "lento" <=> hash_user \in 75 .. 99
            /\ Cardinality(0 .. 19) = 20
            /\ Cardinality(20 .. 74) = 55
            /\ Cardinality(75 .. 99) = 25

C18_Testigo ==
    /\ pc = "perfil_retorno"
    /\ hash_str[row.user_id] = 75
    /\ perfil = "lento"

\* C16: two runs with the same seed on the same rows in the same order
\* produce the same sessions for an interaction, session_start and
\* session_end included, whatever the wall clock of each run is (here even
\* with the same string hash in both processes).
C16_MismasSesionesEntreCorridas ==
    (/\ corrida = 2
     /\ pc = "retorno"
     /\ row = Objetivo
     /\ referencia.filas_nuevas = referencia.filas
     /\ hash_str = referencia.hash_str) =>
        sesiones = referencia.sesiones

\* C19: the sessions of an interaction are the same when the rows are
\* processed in another order or with other rows before it, in runs with
\* the same seed (here with the same clock and the same string hash).
C19_IndependienteDeOtrasFilas ==
    (/\ corrida = 2
     /\ pc = "retorno"
     /\ row = Objetivo
     /\ ahora = referencia.ahora
     /\ hash_str = referencia.hash_str) =>
        sesiones = referencia.sesiones

\* C20 as stated: rating 5, is_read 1 and 320 pages give the Completed path
\* with between 6 and 15 sessions and a final progress_end of 320.
C20_Escenario320 ==
    /\ pc # "llamada" => camino = "completado"
    /\ pc = "retorno" =>
          /\ Len(sesiones) >= 6
          /\ Len(sesiones) <= 15
          /\ Ultima.progress_end = 320

\* C20 amended: rating 5, is_read 1 and 320 pages give the Completed path
\* with between 10 and 24 sessions (the bracket of 300 to 499 pages) and a
\* final progress_end of 320.
C20_Escenario320Bracket300 ==
    /\ pc # "llamada" => camino = "completado" /\ num_pages = 320
    /\ pc \in {"patron", "sesiones", "retorno"} =>
          (num_sesiones >= 10 /\ num_sesiones <= 24)
    /\ pc = "retorno" =>
          /\ Len(sesiones) = num_sesiones
          /\ Ultima.progress_end = 320

C20_Testigo ==
    /\ Retornado("completado")
    /\ row.rating = Num(5)
    /\ row.is_read = 1
    /\ num_pages = 320
    /\ Len(sesiones) = 24
    /\ Ultima.progress_end = 320


C29_Rating3Entre25y83 ==
    (pc # "llamada" /\ row.rating = Num(3)) =>
        LET ab == row.abandono_score
            en == row.engagement_score
            co == row.complejidad_score
            ri == row.ritmo_score
            sin_limite == prob_abandono(3)
                    + (IF ab > 0 THEN 25 * Min(ab, 100) ELSE 0)
                    - (IF en > 0 THEN 15 * Min(en, 100) ELSE 0)
                    + (IF co > 0 THEN 10 * Min(co, 100) ELSE 0)
                    + (IF ri < 0 THEN 8 * Min(Abs(ri), 100) ELSE 0)
        IN  /\ prob_aband >= 2500
            /\ prob_aband <= 8300
            /\ prob_aband = sin_limite
            /\ 0 < prob_aband /\ prob_aband < 10000

C29_Testigo ==
    /\ pc = "simular"
    /\ row.rating = Num(3)
    /\ row.abandono_score = 250
    /\ row.engagement_score = 0 - 100
    /\ row.complejidad_score = 250
    /\ row.ritmo_score = 0 - 250
    /\ prob_aband = 8300


\* C24: the page count used by simular_para_interaccion is always an
\* integer >= 1: 300 for a missing or non-numeric cell, the truncation of a
\* numeric cell, 1 when that is below 1; completion percentages never
\* divide by zero.
C24_PaginasAlMenosUna ==
    pc # "llamada" =>
        /\ excepcion # "OverflowError"
        /\ num_pages >= 1
        /\ row.num_pages.tipo \in {"nan", "texto"} => num_pages = 300
        /\ (row.num_pages.tipo = "num" /\ row.num_pages.v >= 10) =>
              (num_pages * 10 <= row.num_pages.v
               /\ row.num_pages.v < (num_pages + 1) * 10)
        /\ (row.num_pages.tipo = "num" /\ row.num_pages.v < 10) => num_pages = 1


\* C22: analizar_reviews_libro returns None when the list is empty or no
\* entry has text left after normalization (every entry missing, empty, or
\* made of markup tags and blanks only).
C22_SinTextoDevuelveNone ==
    (/\ pc = "analizado"
     /\ \A k \in 1 .. Len(reviews_texto_lista) :
           limpiar_texto(reviews_texto_lista[k]) = <<>>) =>
        features_libro = None

C27_ScoresEntreMenosUnoYUno ==
    (pc = "analizado" /\ features_libro # None) =>
        \A sc \in {features_libro.engagement_score,
                   features_libro.complejidad_score,
                   features_libro.ritmo_score,
                   features_libro.emocional_score} :
            0 - sc.den <= sc.num /\ sc.num <= sc.den


\* C28: while the review file is loaded, after every line no book holds
\* more than sample_reviews_per_book texts, total_reviews is the number of
\* texts collected over all books, and when max_libros is set the number of
\* collected books does not exceed it.
C28_InvariantesDeCarga ==
    pc \in {"cargar", "cargado"} =>
        /\ \A b \in DOMAIN reviews_por_libro :
              Len(reviews_por_libro[b]) <= sample_reviews_per_book
        /\ total_reviews = TotalTextos(DOMAIN reviews_por_libro)
        /\ ~max_libros.none =>
              Cardinality(DOMAIN reviews_por_libro) <= max_libros.v


\* C26: in generar_patron_temporal_sesiones session i (0-based) takes its
\* gap from {0,1,2,3} when i < 0.3 n and from {1,2,3,4,5,7} otherwise; its
\* date is the date of the session before plus the gap (the start date plus
\* the gap for the first); dates never decrease and n timestamps come back.
C26_FechasAcumuladas ==
    pc = "patron" =>
        LET fecha_inicio == fecha_actual - SumaDias(dias)
        IN  /\ Len(timestamps) = i
            /\ Len(dias) = i
            /\ i <= num_sesiones
            /\ \A k \in 1 .. Len(timestamps) :
                  /\ dias[k] \in (IF 10 * (k - 1) < 3 * num_sesiones
                                  THEN {0, 1, 2, 3} ELSE {1, 2, 3, 4, 5, 7})
                  /\ FechaDe(k) = (IF k = 1 THEN fecha_inicio ELSE FechaDe(k - 1))
                                  + dias[k]
                  /\ k > 1 => FechaDe(k) >= FechaDe(k - 1)

C26_Testigo ==
    /\ pc = "patron"
    /\ num_sesiones = 4
    /\ i = 4
    /\ Len(timestamps) = 4
    /\ dias = <<0, 3, 7, 1>>

\* C30: a session with index i >= 1 and i >= 0.3 n is dated at least one
\* day after the session before it, so its session_start is strictly later
\* whatever hours and minutes are drawn.
C30_TardiasEstrictamenteDespues ==
    pc = "patron" =>
        \A k \in 2 .. Len(timestamps) :
            10 * (k - 1) >= 3 * num_sesiones =>
                /\ FechaDe(k) >= FechaDe(k - 1) + 1
                /\ timestamps[k] > timestamps[k - 1]

C30_Testigo ==
    /\ pc = "patron"
    /\ num_sesiones = 4
    /\ Len(timestamps) = 4
    /\ dias[3] = 1
    /\ timestamps[2] % 1440 = 23 * 60 + 30
    /\ timestamps[3] % 1440 = 8 * 60 + 30

====
